---- MODULE Spec2Model ----
(***************************************************************************)
(* Model of the code-to-fsm analyzer (src/code-to-fsm/analyzer.js).        *)
(*                                                                         *)
(* Text is a sequence of tokens.  Each token stands for a literal piece of *)
(* text that the analyzer's regular expressions distinguish:               *)
(*   "K"  the keyword  stateDiagram-v2                                     *)
(*   "F"  a code fence, three backticks                                    *)
(*   "M"  the language tag  mermaid                                        *)
(*   "n"  a line break                                                     *)
(*   "s"  a space                                                          *)
(*   "a"  any other visible character (prose, diagram body)                *)
(***************************************************************************)
EXTENDS Integers, Sequences, FiniteSets, TLC

\* Most pieces (see ReplyPieces) of a reply handed directly to
\* extractMermaidDiagram.
MaxReplyPieces == 6

Min(S) == CHOOSE x \in S : \A y \in S : x <= y

----------------------------------------------------------------------------
(* String.prototype.trim: strips white space (line breaks, spaces) from    *)
(* both ends.                                                              *)

IsWhiteSpace(c) == c \in {"n", "s"}

RECURSIVE trimStart(_)
trimStart(t) ==
  IF t # <<>> /\ IsWhiteSpace(Head(t)) THEN trimStart(Tail(t)) ELSE t

RECURSIVE trimEnd(_)
trimEnd(t) ==
  IF t # <<>> /\ IsWhiteSpace(t[Len(t)])
  THEN trimEnd(SubSeq(t, 1, Len(t) - 1))
  ELSE t

trim(t) == trimEnd(trimStart(t))

----------------------------------------------------------------------------
(* extractMermaidDiagram                                                   *)

NoMatch == [matched |-> FALSE, text |-> <<>>]
Match(t) == [matched |-> TRUE, text |-> t]

\* String.prototype.includes('stateDiagram-v2')
includes(response) == \E i \in 1..Len(response) : response[i] = "K"

\* A lookahead that no longer stops at a double line break.
Lookahead_NoBlankLine(response, j) ==
  \/ j = Len(response) + 1
  \/ /\ j + 1 <= Len(response)
     /\ response[j] = "n"
     /\ response[j + 1] = "F"

\* The lookahead (?=\n\n|\n```|$) at position j (1-based, j = Len+1 is the end).
Lookahead(response, j) ==
  \/ j = Len(response) + 1
  \/ /\ j + 1 <= Len(response)
     /\ response[j] = "n"
     /\ response[j + 1] \in {"n", "F"}

\* response.match(/stateDiagram-v2[\s\S]*?(?=\n\n|\n```|$)/): the leftmost
\* keyword, then the shortest run of any characters that ends where the
\* lookahead holds.  match[0] is the matched text.
diagramMatch(response) ==
  IF ~includes(response) THEN NoMatch
  ELSE LET i == Min({k \in 1..Len(response) : response[k] = "K"})
           j == Min({k \in (i + 1)..(Len(response) + 1) : Lookahead(response, k)})
       IN  Match(SubSeq(response, i, j - 1))

\* Positions where the literal ```mermaid\n starts.
IsOpener(response, i) ==
  /\ i + 2 <= Len(response)
  /\ response[i] = "F"
  /\ response[i + 1] = "M"
  /\ response[i + 2] = "n"

\* The fenced block captured up to the LAST fence instead of the first.
codeBlockMatch_Greedy(response) ==
  LET starts == {i \in 1..Len(response) :
                   /\ IsOpener(response, i)
                   /\ \E k \in (i + 3)..Len(response) : response[k] = "F"}
  IN  IF starts = {} THEN NoMatch
      ELSE LET i == Min(starts)
               k == CHOOSE m \in (i + 3)..Len(response) :
                      /\ response[m] = "F"
                      /\ \A q \in (i + 3)..Len(response) :
                           response[q] = "F" => q <= m
           IN  Match(SubSeq(response, i + 3, k - 1))

\* response.match(/```mermaid\n([\s\S]*?)```/): the leftmost opener that is
\* followed by a fence, and the shortest interior.  match[1] is the interior.
codeBlockMatch(response) ==
  LET starts == {i \in 1..Len(response) :
                   /\ IsOpener(response, i)
                   /\ \E k \in (i + 3)..Len(response) : response[k] = "F"}
  IN  IF starts = {} THEN NoMatch
      ELSE LET i == Min(starts)
               k == Min({m \in (i + 3)..Len(response) : response[m] = "F"})
           IN  Match(SubSeq(response, i + 3, k - 1))

Returned(t) == [ok |-> TRUE, text |-> t, error |-> "none"]
Thrown(e) == [ok |-> FALSE, text |-> <<>>, error |-> e]

\* The fenced block is tried before the keyword block.
extractMermaidDiagram_FenceFirst(response) ==
  IF codeBlockMatch(response).matched
  THEN Returned(trim(codeBlockMatch(response).text))
  ELSE IF diagramMatch(response).matched
  THEN Returned(trim(diagramMatch(response).text))
  ELSE IF includes(response)
  THEN Returned(response)
  ELSE Thrown("Could not extract Mermaid diagram from response")

\* The last resort returns the reply without looking for the keyword.
extractMermaidDiagram_NoThrow(response) ==
  IF diagramMatch(response).matched
  THEN Returned(trim(diagramMatch(response).text))
  ELSE IF codeBlockMatch(response).matched
  THEN Returned(trim(codeBlockMatch(response).text))
  ELSE Returned(response)

extractMermaidDiagram(response) ==
  IF diagramMatch(response).matched
  THEN Returned(trim(diagramMatch(response).text))
  ELSE IF codeBlockMatch(response).matched
  THEN Returned(trim(codeBlockMatch(response).text))
  ELSE IF includes(response)
  THEN Returned(response)
  ELSE Thrown("Could not extract Mermaid diagram from response")

----------------------------------------------------------------------------
(* The world analyze() runs in.                                            *)

\* Paths of the workspace that a scan or an explicit list can name.
Paths == {"f1", "f2"}

\* Ordered lists of distinct paths.
PathLists ==
  {<<>>} \cup {<<p>> : p \in Paths}
         \cup {l \in {<<p, q>> : p \in Paths, q \in Paths} : l[1] # l[2]}

\* Chunks a 'data' event of the oracle's standard output can deliver.
StdoutChunks ==
  {<<"K">>, <<"a">>, <<"n">>, <<"s">>, <<"F">>, <<"F", "M", "n">>}

\* Most tokens the oracle writes to its standard output in one run.
MaxStdout == 4

\* Most 'data' events of the oracle's standard error in one run.
MaxStderr == 1

\* Exit codes range over 0..MaxExitCode.
MaxExitCode == 1

ExitCodes == 0..MaxExitCode

Pending == [state |-> "pending", value |-> <<>>, reason |-> "none",
            code |-> 0, detail |-> <<>>]

\* resolve(output.trim())
Resolved(v) == [state |-> "resolved", value |-> v, reason |-> "none",
                code |-> 0, detail |-> <<>>]

\* reject(new Error(`Claude CLI exited with code ${code}: ${errorOutput}`))
RejectedExit(c, e) == [state |-> "rejected", value |-> <<>>,
                       reason |-> "Claude CLI exited with code",
                       code |-> c, detail |-> e]

\* reject(new Error(`Failed to start Claude CLI: ... Make sure 'claude' is
\* installed and in your PATH.`))
RejectedStart == [state |-> "rejected", value |-> <<>>,
                  reason |-> "Failed to start Claude CLI",
                  code |-> 0, detail |-> <<>>]

NoResult == [present |-> FALSE, analysis |-> <<>>, mermaidDiagram |-> <<>>,
             filesAnalyzed |-> <<>>]

NoSelection == [given |-> FALSE, list |-> <<>>]

\* new CodeToFSMAnalyzer(workspacePath, options): the workspace root.  A
\* path is the sequence of its segments; an absolute path starts at "/".
workspacePath == <<"/", "ws">>

\* Path normalisation: a ".." segment removes the segment before it, the
\* root excepted.
RECURSIVE normalize(_, _)
normalize(done, rest) ==
  IF rest = <<>> THEN done
  ELSE IF Head(rest) = ".."
       THEN normalize(IF Len(done) > 1
                      THEN SubSeq(done, 1, Len(done) - 1)
                      ELSE done,
                      Tail(rest))
       ELSE normalize(Append(done, Head(rest)), Tail(rest))

\* path.resolve(w, f) for an absolute w and a relative f; also the
\* absolute path glob reports for the entry f under its cwd w.
resolve(w, f) == normalize(<<>>, w \o f)

\* Number of leading segments two paths share.
RECURSIVE CommonPrefix(_, _)
CommonPrefix(a, b) ==
  IF a # <<>> /\ b # <<>> /\ Head(a) = Head(b)
  THEN 1 + CommonPrefix(Tail(a), Tail(b))
  ELSE 0

\* path.relative(from, to): one ".." for every segment of from below the
\* common prefix, then the rest of to.
relative(from, to) ==
  LET c == CommonPrefix(from, to)
  IN  [i \in 1..(Len(from) - c) |-> ".."] \o SubSeq(to, c + 1, Len(to))

\* fs.readFileSync(filePath, 'utf-8') when it succeeds: the text stored
\* at that absolute path.
readFileSync(filePath) == <<"text of">> \o filePath

\* readFiles that gives up at the first path it cannot read.
readFiles_StopAtFailure(paths, readable) ==
  LET bad == {i \in 1..Len(paths) : paths[i] \notin readable}
      kept == SubSeq(paths, 1, Min(bad \cup {Len(paths) + 1}) - 1)
  IN  [i \in 1..Len(kept) |->
         [path |-> relative(workspacePath, kept[i]),
          content |-> readFileSync(kept[i])]]

\* readFiles, lines 51-68: one record {path, content} per path that could
\* be read, in the order of filePaths, the path made relative to the
\* workspace; a path whose read throws is skipped with a warning.
readFiles(paths, readable) ==
  LET ok(filePath) == filePath \in readable
      kept == SelectSeq(paths, ok)
  IN  [i \in 1..Len(kept) |->
         [path |-> relative(workspacePath, kept[i]),
          content |-> readFileSync(kept[i])]]

\* createAnalysisPrompt that lists the files last to first.
createAnalysisPrompt_Reversed(fs) ==
  [i \in 1..Len(fs) |->
     <<"File:", fs[Len(fs) + 1 - i].path, fs[Len(fs) + 1 - i].content>>]

\* createAnalysisPrompt, lines 73-76: files.map(...).join(...) makes one
\* "File: <path>" section with the content per record, in the order of
\* files; the fixed instructions around the sections are left out.
createAnalysisPrompt(fs) ==
  [i \in 1..Len(fs) |-> <<"File:", fs[i].path, fs[i].content>>]

\* analyze, lines 248-252: filesAnalyzed: files.map(f => f.path).
filesAnalyzed(fs) == [i \in 1..Len(fs) |-> fs[i].path]

\* Absolute paths of the names in a list, in order.
Absolute(l) == [i \in 1..Len(l) |-> resolve(workspacePath, <<l[i]>>)]

----------------------------------------------------------------------------
(* The constructor's options and scanWorkspace.                            *)

\* The ceiling used when options.maxFileSize is missing or falsy.
DefaultMaxFileSize == 100000

\* Values of options.maxFileSize: not given, or a number.
MaxFileSizeOptions ==
  {[given |-> FALSE, value |-> 0]}
    \cup {[given |-> TRUE, value |-> v] : v \in {0, 20, 100000}}

\* File sizes in bytes, as fs.statSync reports them.
Sizes == {20, 100000, 200000}

\* constructor, line 17: options.maxFileSize || 100000.  A missing option
\* and the number 0 are both falsy.
maxFileSize(option) ==
  IF option.given /\ option.value # 0
  THEN option.value
  ELSE DefaultMaxFileSize

\* Number of include patterns in options.filePatterns.
MaxPatterns == 2

\* options.filePatterns, by position.
filePatterns == 1..MaxPatterns

\* What the file system holds for a name under the root: the include
\* patterns the name matches, whether it matches an exclude pattern,
\* whether it is a directory, its size, and whether fs.statSync succeeds
\* on it (it fails for a dangling link or a file removed after the glob).
NoEntry == [inc |-> {}, exc |-> FALSE, dir |-> FALSE, size |-> 20,
            stat |-> FALSE]

EntryStates ==
  {NoEntry} \cup
  {e \in [inc : SUBSET filePatterns, exc : BOOLEAN, dir : BOOLEAN,
          size : Sizes, stat : BOOLEAN] : e.inc # {}}

\* The order in which a glob walk reports the names.
WalkOrder == <<"f1", "f2">>

\* glob(pattern, {cwd, absolute: true}) without the ignore option.
glob_NoIgnore(ws, pattern) ==
  IF ~ws.exists THEN <<>>
  ELSE LET hit(f) == pattern \in ws.entries[f].inc
           names == SelectSeq(WalkOrder, hit)
       IN  [i \in 1..Len(names) |-> resolve(workspacePath, <<names[i]>>)]

\* glob(pattern, {cwd: workspacePath, ignore: excludePatterns, absolute:
\* true}), lines 28-32: every entry under cwd (file or directory) whose
\* name matches the pattern and no ignore pattern, as absolute paths.  A
\* cwd that does not exist yields no match and no error.
glob(ws, pattern) ==
  IF ~ws.exists THEN <<>>
  ELSE LET hit(f) == pattern \in ws.entries[f].inc /\ ~ws.entries[f].exc
           names == SelectSeq(WalkOrder, hit)
       IN  [i \in 1..Len(names) |-> resolve(workspacePath, <<names[i]>>)]

\* The entry an absolute path names.
EntryOf(ws, path) == ws.entries[path[Len(path)]]

NotScanned == [done |-> FALSE, ok |-> FALSE, list |-> <<>>, error |-> "none"]
ScanReturned(l) == [done |-> TRUE, ok |-> TRUE, list |-> l, error |-> "none"]
ScanThrown(e) == [done |-> TRUE, ok |-> FALSE, list |-> <<>>, error |-> e]

\* scanWorkspace, lines 36-45: every candidate is stat'ed in order; a stat
\* that throws ends the scan with that error; the candidates at or below
\* the ceiling are returned in order.
filterBySize(ws, candidates, ceiling) ==
  IF \E i \in 1..Len(candidates) : ~EntryOf(ws, candidates[i]).stat
  THEN ScanThrown("ENOENT: no such file or directory, stat")
  ELSE LET fits(path) == EntryOf(ws, path).size <= ceiling
       IN  ScanReturned(SelectSeq(candidates, fits))

----------------------------------------------------------------------------
(* Direct calls of readFiles and saveResults.                              *)

\* Most paths in one call of readFiles.
MaxPaths == 3

\* Absolute paths a caller can pass to readFiles: files of the workspace,
\* a file in a subdirectory and a file outside the workspace.
RequestPaths ==
  {resolve(workspacePath, <<f>>) : f \in Paths}
    \cup {<<"/", "ws", "sub", "f1">>, <<"/", "etc", "f1">>}

RequestLists == UNION {[1..n -> RequestPaths] : n \in 0..MaxPaths}

NotRead == [done |-> FALSE, list |-> <<>>, warnings |-> 0]

\* readFiles, lines 64-66: one console.warn per path whose read threw.
readWarnings(paths, readable) ==
  Cardinality({i \in 1..Len(paths) : paths[i] \notin readable})

\* saveResults, lines 514-516: the text of analysis.txt, the analyzed
\* paths one per line under a heading, then the raw analysis.
fullAnalysis(results) ==
  <<"Files Analyzed:">> \o results.filesAnalyzed
    \o <<"Analysis:", results.analysis>>

\* The two copies of the class: src/code-to-fsm/analyzer.js, which the
\* command line loads, and src/unnamed/part_000.
SaveVariants == {"analyzer.js", "part_000"}

\* results objects as analyze() returns them.
SaveInputs ==
  {[present |-> TRUE, analysis |-> a, mermaidDiagram |-> trim(a),
    filesAnalyzed |-> l] :
     a \in {<<"K">>, <<"K", "n", "a">>, <<"K", "n", "a", "n">>},
     l \in {<< <<"f1">> >>, << <<"f1">>, <<"f2">> >>,
            << <<"f2">>, <<"f1">> >>}}

----------------------------------------------------------------------------
(* The interactive command (cli.js, lines 96-187).                         *)

\* Most questions asked in one session.
MaxTurns == 3

\* Lines the user can enter: blank, a question (bare or padded), a second
\* question, and the words that end the session.
Lines == {<<"s">>, <<"a">>, <<"s", "a", "s">>, <<"K">>, <<"exit">>,
          <<"QUIT">>}

\* String.prototype.toLowerCase on the words that matter.
toLowerCase(t) ==
  [i \in 1..Len(t) |->
     IF t[i] = "QUIT" THEN "quit" ELSE IF t[i] = "EXIT" THEN "exit" ELSE t[i]]

\* cli.js, lines 120-128: the first message, built from the files read.
contextMessage == [role |-> "user", content |-> <<"context">>]

\* cli.js, lines 155-157: conversationHistory.map(...).join('\n\n'), every
\* message under the label of its role.
RenderPrompt(history) ==
  [i \in 1..Len(history) |->
     <<IF history[i].role = "user" THEN "User:" ELSE "Assistant:",
       history[i].content>>]

\* What the oracle answers in turn i.
AssistantMessage(i) == <<"reply", ToString(i)>>

----------------------------------------------------------------------------
(* Overlapping calls of analyzeWithClaude, in one process or in several    *)
(* that share os.tmpdir() and the system clock.                            *)

\* Number of calls observed.
MaxInvocations == 2

\* Date.now() ranges over 0..MaxClock milliseconds.
MaxClock == 2

\* What a read of a prompt file that does not exist gives.
NoFile == <<>>

\* The prompt passed to call i.
PromptOf(i) == <<"prompt of call", i>>

\* analyzeWithClaude, line 133: the file name holds Date.now() and nothing
\* else that tells two calls apart.
tmpFileName(time) == time

----------------------------------------------------------------------------
VARIABLES
  reply,         \* argument of a direct call of extractMermaidDiagram
  outcome,       \* what that call returned or threw; called = FALSE before it
  pc,            \* position of the run of analyze()
  selectedFiles, \* analyze()'s selectedFiles argument
  filePaths,     \* analyze(): filePaths
  files,         \* analyze(): files, the records readFiles returned
  prompt,        \* the prompt handed to analyzeWithClaude
  tmpFile,       \* TRUE while the temporary prompt file exists on disk
  child,         \* the spawned oracle process
  output,        \* analyzeWithClaude: output, accumulated standard output
  errorOutput,   \* analyzeWithClaude: errorOutput, accumulated standard error
  exitCode,      \* the code given to the 'close' handler, -1 before it ran
  promise,       \* the promise analyzeWithClaude returned
  oracleCalls,   \* number of times analyzeWithClaude was entered
  oracleOnPath,  \* TRUE when the shell can find the claude executable
  response,      \* analyze(): response
  result,        \* the AnalysisResult analyze() returned
  error,         \* the message of the error analyze() threw, "none" if none
  workspace,     \* the file system under the workspace root
  maxFileSizeOption, \* options.maxFileSize given to the constructor
  scanIndex,     \* scanWorkspace: position of the next include pattern
  scanFiles,     \* scanWorkspace: files, the matches collected so far
  scanResult,    \* what scanWorkspace returned or threw
  readPaths,     \* readFiles: the filePaths argument
  readableFiles, \* the absolute paths fs.readFileSync succeeds on
  readResult,    \* what readFiles returned, and the warnings it printed
  saveVariant,   \* which copy of the class saveResults is called on
  saveInput,     \* saveResults: the results argument
  outputDirExists, \* whether outputDir exists
  savePc,        \* saveResults: the statement reached
  saveWritten,   \* the files written under outputDir, in order
  saveReturn,    \* the paths saveResults returned
  cliPc,         \* the analyze command: the statement reached
  exitStatus,    \* the exit code of the command's process, -1 while it runs
  xstateWritten, \* whether the XState file was written
  conversationHistory, \* interactive: the messages so far, {role, content}
  oracleProcs,   \* interactive: the oracle processes spawned, by turn
  rlState,       \* interactive: whether the readline interface is open
  now,           \* overlapping calls: the value Date.now() returns
  tmpDir,        \* overlapping calls: the prompt files in os.tmpdir()
  invocations    \* overlapping calls: each call of analyzeWithClaude

extractVars == <<reply, outcome>>

analyzeVars == <<pc, selectedFiles, filePaths, files, prompt, tmpFile, child,
                 output, errorOutput, exitCode, promise, oracleCalls,
                 oracleOnPath, response, result, error>>

scanVars == <<workspace, maxFileSizeOption, scanIndex, scanFiles, scanResult>>

readVars == <<readPaths, readableFiles, readResult>>

saveVars == <<saveVariant, saveInput, outputDirExists, savePc, saveWritten,
              saveReturn>>

cliVars == <<cliPc, exitStatus, xstateWritten>>

interactiveVars == <<conversationHistory, oracleProcs, rlState>>

overlapVars == <<now, tmpDir, invocations>>

vars == <<interactiveVars, overlapVars, cliVars, saveVars, readVars, scanVars, reply, outcome, pc, selectedFiles, filePaths, files, prompt, tmpFile,
          child, output, errorOutput, exitCode, promise, oracleCalls,
          oracleOnPath, response, result, error>>

NotCalled == [called |-> FALSE, ok |-> FALSE, text |-> <<>>, error |-> "none"]

\* The pieces replies are put together from: the keyword, a visible
\* character, a line break, a space, a fence, and the opener ```mermaid\n.
ReplyPieces == StdoutChunks

RECURSIVE Concat(_)
Concat(pieces) ==
  IF pieces = <<>> THEN <<>> ELSE Head(pieces) \o Concat(Tail(pieces))

Replies ==
  {Concat(ps) : ps \in UNION {[1..k -> ReplyPieces] : k \in 0..MaxReplyPieces}}

AnalyzeIdle ==
  /\ pc = "start"
  /\ filePaths = <<>>
  /\ files = <<>>
  /\ prompt = <<>>
  /\ tmpFile = FALSE
  /\ child = "none"
  /\ output = <<>>
  /\ errorOutput = <<>>
  /\ exitCode = -1
  /\ promise = Pending
  /\ oracleCalls = 0
  /\ response = <<>>
  /\ result = NoResult
  /\ error = "none"

\* No scan under way: an existing, empty workspace and default options.
ScanIdle ==
  /\ workspace = [exists |-> TRUE, entries |-> [f \in Paths |-> NoEntry]]
  /\ maxFileSizeOption = [given |-> FALSE, value |-> 0]
  /\ scanIndex = 1
  /\ scanFiles = <<>>
  /\ scanResult = NotScanned

\* readFiles not called.
ReadIdle ==
  /\ readPaths = <<>>
  /\ readableFiles = {}
  /\ readResult = NotRead

\* The interactive command not run.
InteractiveIdle ==
  /\ conversationHistory = <<>>
  /\ oracleProcs = <<>>
  /\ rlState = "none"

\* No overlapping calls of analyzeWithClaude under observation.
OverlapIdle ==
  /\ now = 0
  /\ tmpDir = <<>>
  /\ invocations = <<>>

\* The analyze command not run.
CliIdle ==
  /\ cliPc = "idle"
  /\ exitStatus = -1
  /\ xstateWritten = FALSE

\* saveResults not called.
SaveIdle ==
  /\ saveVariant = "analyzer.js"
  /\ saveInput = NoResult
  /\ outputDirExists = TRUE
  /\ savePc = "idle"
  /\ saveWritten = <<>>
  /\ saveReturn = {}

----------------------------------------------------------------------------
(* A direct call of extractMermaidDiagram on an arbitrary reply.           *)

InitExtract ==
  /\ reply \in Replies
  /\ outcome = NotCalled
  /\ selectedFiles = NoSelection
  /\ oracleOnPath = TRUE
  /\ AnalyzeIdle
  /\ ScanIdle
  /\ ReadIdle
  /\ SaveIdle
  /\ CliIdle
  /\ InteractiveIdle
  /\ OverlapIdle

ExtractCall ==
  /\ ~outcome.called
  /\ outcome' = [called |-> TRUE] @@ extractMermaidDiagram(reply)
  /\ UNCHANGED <<interactiveVars, overlapVars, cliVars, saveVars, readVars, scanVars, reply, analyzeVars>>

NextExtract == ExtractCall

SpecExtract == InitExtract /\ [][NextExtract]_vars

----------------------------------------------------------------------------
(* One run of analyze(focusArea, selectedFiles).                           *)

Init ==
  /\ reply = <<>>
  /\ outcome = NotCalled
  /\ selectedFiles \in
       {NoSelection} \cup {[given |-> TRUE, list |-> l] : l \in PathLists}
  /\ oracleOnPath \in BOOLEAN
  /\ AnalyzeIdle
  /\ ScanIdle
  /\ ReadIdle
  /\ SaveIdle
  /\ CliIdle
  /\ InteractiveIdle
  /\ OverlapIdle

\* analyze, lines 216-230, with an explicit list: the paths are resolved
\* against the workspace, in order; an empty list throws.
AnalyzeSelected ==
  /\ pc = "start"
  /\ selectedFiles.given
  /\ filePaths' = Absolute(selectedFiles.list)
  /\ IF selectedFiles.list = <<>>
     THEN /\ pc' = "failed"
          /\ error' = "No files found to analyze"
     ELSE /\ pc' = "found"
          /\ UNCHANGED error
  /\ UNCHANGED <<interactiveVars, overlapVars, cliVars, saveVars, readVars, scanVars, oracleOnPath, reply, outcome, selectedFiles, files, prompt, tmpFile, child,
                 output, errorOutput, exitCode, promise, oracleCalls,
                 response, result>>

\* analyze, lines 216-230, without a list: filePaths is what scanWorkspace
\* returned; an empty scan result throws.
AnalyzeScan ==
  /\ pc = "start"
  /\ ~selectedFiles.given
  /\ \E scanned \in PathLists :
       /\ filePaths' = Absolute(scanned)
       /\ IF scanned = <<>>
          THEN /\ pc' = "failed"
               /\ error' = "No files found to analyze"
          ELSE /\ pc' = "found"
               /\ UNCHANGED error
  /\ UNCHANGED <<interactiveVars, overlapVars, cliVars, saveVars, readVars, scanVars, oracleOnPath, reply, outcome, selectedFiles, files, prompt, tmpFile, child,
                 output, errorOutput, exitCode, promise, oracleCalls,
                 response, result>>

\* analyze, line 233: files = this.readFiles(filePaths).  Which reads throw
\* is the file system's choice.
AnalyzeRead ==
  /\ pc = "found"
  /\ \E readable \in SUBSET {resolve(workspacePath, <<f>>) : f \in Paths} :
       files' = readFiles(filePaths, readable)
  /\ pc' = "read"
  /\ UNCHANGED <<interactiveVars, overlapVars, cliVars, saveVars, readVars, scanVars, oracleOnPath, reply, outcome, selectedFiles, filePaths, prompt, tmpFile,
                 child, output, errorOutput, exitCode, promise, oracleCalls,
                 response, result, error>>

\* analyze, lines 236-237, and analyzeWithClaude, lines 128-159: the prompt
\* is built and written to the temporary file, the shell command
\* `claude --print < tmpFile` is spawned with shell: true and the handlers
\* are registered.  The process spawned is the shell; whether it starts is
\* the operating system's choice.
AnalyzeWithClaude ==
  /\ pc = "read"
  /\ prompt' = createAnalysisPrompt(files)
  /\ tmpFile' = TRUE
  /\ oracleCalls' = oracleCalls + 1
  /\ \E started \in BOOLEAN :
       child' = IF started THEN "running" ELSE "failing"
  /\ pc' = "awaiting"
  /\ UNCHANGED <<interactiveVars, overlapVars, cliVars, saveVars, readVars, scanVars, oracleOnPath, reply, outcome, selectedFiles, filePaths, files, output,
                 errorOutput, exitCode, promise, response, result, error>>

\* claude.stdout.on('data'): output += data.toString().  Only the oracle
\* writes to standard output; a shell that cannot find it writes nothing
\* there.
StdoutData ==
  /\ child = "running"
  /\ oracleOnPath
  /\ \E chunk \in StdoutChunks :
       /\ Len(output) + Len(chunk) <= MaxStdout
       /\ output' = output \o chunk
  /\ UNCHANGED <<interactiveVars, overlapVars, cliVars, saveVars, readVars, scanVars, oracleOnPath, reply, outcome, pc, selectedFiles, filePaths, files, prompt,
                 tmpFile, child, errorOutput, exitCode, promise, oracleCalls,
                 response, result, error>>

\* claude.stderr.on('data'): errorOutput += data.toString()
StderrData ==
  /\ child = "running"
  /\ Len(errorOutput) < MaxStderr
  /\ errorOutput' = Append(errorOutput, "a")
  /\ UNCHANGED <<interactiveVars, overlapVars, cliVars, saveVars, readVars, scanVars, oracleOnPath, reply, outcome, pc, selectedFiles, filePaths, files, prompt,
                 tmpFile, child, output, exitCode, promise, oracleCalls,
                 response, result, error>>

\* A 'close' handler that treats an empty reply as a failure.
Settle_EmptyIsFailure(p, code, out, err) ==
  IF p.state # "pending" THEN p
  ELSE IF code # 0 \/ trim(out) = <<>> THEN RejectedExit(code, err)
  ELSE Resolved(trim(out))

\* What the 'close' handler settles the promise with; settling a settled
\* promise changes nothing.
Settle(p, code, out, err) ==
  IF p.state # "pending" THEN p
  ELSE IF code # 0 THEN RejectedExit(code, err)
  ELSE Resolved(trim(out))

\* claude.on('close'), lines 161-174: the temporary file is unlinked (an
\* unlink that throws because the file is gone is ignored), then the
\* promise is settled by the exit code.  After a failed start the handler
\* runs with a non-zero code; a shell that cannot find the executable named
\* in its command exits with a non-zero code ("command not found").
Close(code) ==
  /\ child \in {"running", "errored"}
  /\ child = "errored" => code # 0
  /\ ~oracleOnPath => code # 0
  /\ tmpFile' = FALSE
  /\ exitCode' = code
  /\ promise' = Settle(promise, code, output, errorOutput)
  /\ child' = IF child = "running" THEN "exited" ELSE "closed"
  /\ UNCHANGED <<interactiveVars, overlapVars, cliVars, saveVars, readVars, scanVars, oracleOnPath, reply, outcome, pc, selectedFiles, filePaths, files, prompt,
                 output, errorOutput, oracleCalls, response, result, error>>

\* An 'error' handler that rejects without removing the temporary file.
ErrorEvent_NoUnlink ==
  /\ child = "failing"
  /\ promise' = IF promise.state = "pending" THEN RejectedStart ELSE promise
  /\ child' = "errored"
  /\ UNCHANGED <<interactiveVars, overlapVars, cliVars, saveVars, readVars, scanVars, oracleOnPath, reply, outcome, pc, selectedFiles, filePaths, files, prompt,
                 tmpFile, output, errorOutput, exitCode, oracleCalls, response,
                 result, error>>

\* claude.on('error'), lines 176-184: the temporary file is unlinked and
\* the promise is rejected.
ErrorEvent ==
  /\ child = "failing"
  /\ tmpFile' = FALSE
  /\ promise' = IF promise.state = "pending" THEN RejectedStart ELSE promise
  /\ child' = "errored"
  /\ UNCHANGED <<interactiveVars, overlapVars, cliVars, saveVars, readVars, scanVars, oracleOnPath, reply, outcome, pc, selectedFiles, filePaths, files, prompt,
                 output, errorOutput, exitCode, oracleCalls, response, result,
                 error>>

\* analyze, line 237 (the await) to line 252: a rejection is rethrown; a
\* reply is searched for the diagram and the result returned, or the
\* extractor's error thrown.
AnalyzeResume ==
  /\ pc = "awaiting"
  /\ promise.state # "pending"
  /\ IF promise.state = "rejected"
     THEN /\ pc' = "failed"
          /\ error' = promise.reason
          /\ UNCHANGED <<response, result>>
     ELSE /\ response' = promise.value
          /\ LET mermaidDiagram == extractMermaidDiagram(promise.value)
             IN  IF mermaidDiagram.ok
                 THEN /\ pc' = "done"
                      /\ result' = [present |-> TRUE,
                                    analysis |-> promise.value,
                                    mermaidDiagram |-> mermaidDiagram.text,
                                    filesAnalyzed |-> filesAnalyzed(files)]
                      /\ UNCHANGED error
                 ELSE /\ pc' = "failed"
                      /\ error' = mermaidDiagram.error
                      /\ UNCHANGED result
  /\ UNCHANGED <<interactiveVars, overlapVars, cliVars, saveVars, readVars, scanVars, oracleOnPath, reply, outcome, selectedFiles, filePaths, files, prompt,
                 tmpFile, child, output, errorOutput, exitCode, promise,
                 oracleCalls>>

Next ==
  \/ AnalyzeSelected
  \/ AnalyzeScan
  \/ AnalyzeRead
  \/ AnalyzeWithClaude
  \/ StdoutData
  \/ StderrData
  \/ \E code \in ExitCodes : Close(code)
  \/ ErrorEvent
  \/ AnalyzeResume

Spec == Init /\ [][Next]_vars

----------------------------------------------------------------------------
(* A call of scanWorkspace().                                              *)

InitScan ==
  /\ workspace \in
       {[exists |-> FALSE, entries |-> [f \in Paths |-> NoEntry]]} \cup
       {[exists |-> TRUE, entries |-> es] : es \in [Paths -> EntryStates]}
  /\ maxFileSizeOption \in MaxFileSizeOptions
  /\ scanIndex = 1
  /\ scanFiles = <<>>
  /\ scanResult = NotScanned
  /\ reply = <<>>
  /\ outcome = NotCalled
  /\ selectedFiles = NoSelection
  /\ oracleOnPath = TRUE
  /\ AnalyzeIdle
  /\ ReadIdle
  /\ SaveIdle
  /\ CliIdle
  /\ InteractiveIdle
  /\ OverlapIdle

\* scanWorkspace, lines 27-34: one turn of the loop over filePatterns;
\* the matches of the pattern are appended to files.
ScanGlob ==
  /\ ~scanResult.done
  /\ scanIndex \in filePatterns
  /\ scanFiles' = scanFiles \o glob(workspace, scanIndex)
  /\ scanIndex' = scanIndex + 1
  /\ UNCHANGED <<workspace, maxFileSizeOption, scanResult, reply, outcome,
                 analyzeVars, interactiveVars, overlapVars, cliVars, readVars, saveVars>>

\* scanWorkspace, lines 36-45: after the last pattern, the size filter.
ScanFilter ==
  /\ ~scanResult.done
  /\ scanIndex \notin filePatterns
  /\ scanResult' = filterBySize(workspace, scanFiles,
                                maxFileSize(maxFileSizeOption))
  /\ UNCHANGED <<workspace, maxFileSizeOption, scanIndex, scanFiles, reply,
                 outcome, analyzeVars, interactiveVars, overlapVars, cliVars, readVars, saveVars>>

NextScan == ScanGlob \/ ScanFilter

SpecScan == InitScan /\ [][NextScan]_vars

----------------------------------------------------------------------------
(* A call of readFiles(filePaths).                                         *)

InitRead ==
  /\ readPaths \in RequestLists
  /\ readableFiles \in SUBSET RequestPaths
  /\ readResult = NotRead
  /\ reply = <<>>
  /\ outcome = NotCalled
  /\ selectedFiles = NoSelection
  /\ oracleOnPath = TRUE
  /\ AnalyzeIdle
  /\ ScanIdle
  /\ SaveIdle
  /\ CliIdle
  /\ InteractiveIdle
  /\ OverlapIdle

\* readFiles, lines 51-68, from call to return.
ReadCall ==
  /\ ~readResult.done
  /\ readResult' = [done |-> TRUE,
                    list |-> readFiles(readPaths, readableFiles),
                    warnings |-> readWarnings(readPaths, readableFiles)]
  /\ UNCHANGED <<readPaths, readableFiles, reply, outcome, analyzeVars, interactiveVars, overlapVars, cliVars,
                 scanVars, saveVars>>

NextRead == ReadCall

SpecRead == InitRead /\ [][NextRead]_vars

----------------------------------------------------------------------------
(* A call of saveResults(results, outputDir).  Every write is a call into  *)
(* the file system that can throw; an exception leaves saveResults.        *)

InitSave ==
  /\ saveVariant \in SaveVariants
  /\ saveInput \in SaveInputs
  /\ outputDirExists \in BOOLEAN
  /\ savePc = "mkdir"
  /\ saveWritten = <<>>
  /\ saveReturn = {}
  /\ reply = <<>>
  /\ outcome = NotCalled
  /\ selectedFiles = NoSelection
  /\ oracleOnPath = TRUE
  /\ AnalyzeIdle
  /\ ScanIdle
  /\ ReadIdle
  /\ CliIdle
  /\ InteractiveIdle
  /\ OverlapIdle

\* saveResults, lines 504-506: the directory is created when missing.
SaveMkdir ==
  /\ savePc = "mkdir"
  /\ IF outputDirExists
     THEN savePc' = "diagram" /\ UNCHANGED outputDirExists
     ELSE \E fails \in BOOLEAN :
            IF fails
            THEN savePc' = "thrown" /\ UNCHANGED outputDirExists
            ELSE savePc' = "diagram" /\ outputDirExists' = TRUE
  /\ UNCHANGED <<saveVariant, saveInput, saveWritten, saveReturn, reply,
                 outcome, analyzeVars, interactiveVars, overlapVars, cliVars, scanVars, readVars>>

\* saveResults, lines 508-511: state-machine.mmd.
SaveDiagram ==
  /\ savePc = "diagram"
  /\ \E fails \in BOOLEAN :
       IF fails
       THEN savePc' = "thrown" /\ UNCHANGED saveWritten
       ELSE /\ savePc' = "report"
            /\ saveWritten' =
                 Append(saveWritten, [file |-> "state-machine.mmd",
                                      text |-> saveInput.mermaidDiagram])
  /\ UNCHANGED <<saveVariant, saveInput, outputDirExists, saveReturn, reply,
                 outcome, analyzeVars, interactiveVars, overlapVars, cliVars, scanVars, readVars>>

\* saveResults, lines 513-518: analysis.txt.  The copy in part_000 returns
\* here (its lines 268-278), with the two paths it wrote.
SaveReport ==
  /\ savePc = "report"
  /\ \E fails \in BOOLEAN :
       IF fails
       THEN savePc' = "thrown" /\ UNCHANGED <<saveWritten, saveReturn>>
       ELSE /\ saveWritten' =
                 Append(saveWritten, [file |-> "analysis.txt",
                                      text |-> fullAnalysis(saveInput)])
            /\ IF saveVariant = "analyzer.js"
               THEN savePc' = "viewer" /\ UNCHANGED saveReturn
               ELSE /\ savePc' = "returned"
                    /\ saveReturn' = {"state-machine.mmd", "analysis.txt"}
  /\ UNCHANGED <<saveVariant, saveInput, outputDirExists, reply, outcome,
                 analyzeVars, interactiveVars, overlapVars, cliVars, scanVars, readVars>>

\* saveResults, lines 520-528, and generateHTMLViewer, lines 258-498:
\* view-diagram.html with the diagram embedded, then the return.
SaveViewer ==
  /\ savePc = "viewer"
  /\ \E fails \in BOOLEAN :
       IF fails
       THEN savePc' = "thrown" /\ UNCHANGED <<saveWritten, saveReturn>>
       ELSE /\ savePc' = "returned"
            /\ saveWritten' =
                 Append(saveWritten,
                        [file |-> "view-diagram.html",
                         text |-> <<"<html>">> \o saveInput.mermaidDiagram])
            /\ saveReturn' = {"state-machine.mmd", "analysis.txt",
                              "view-diagram.html"}
  /\ UNCHANGED <<saveVariant, saveInput, outputDirExists, reply, outcome,
                 analyzeVars, interactiveVars, overlapVars, cliVars, scanVars, readVars>>

NextSave == SaveMkdir \/ SaveDiagram \/ SaveReport \/ SaveViewer

SpecSave == InitSave /\ [][NextSave]_vars

----------------------------------------------------------------------------
(* One run of the command `code-to-fsm analyze <workspace>` (cli.js, lines *)
(* 26-89): the existence test, analyze(), saveResults(), the optional      *)
(* XState conversion; the catch block ends the process with status 1.      *)
(* The option -f <files...> takes one value or more, so a list that is     *)
(* given is not empty.                                                     *)

\* options.files: absent, so that analyze() scans and filePaths can be any
\* list a scan returns, or a list of two names given out of walk order.
CliFileOptions == {NoSelection, [given |-> TRUE, list |-> <<"f2", "f1">>]}

InitCli ==
  /\ cliPc = "start"
  /\ exitStatus = -1
  /\ xstateWritten = FALSE
  /\ workspace \in {[exists |-> x, entries |-> [f \in Paths |-> NoEntry]] :
                      x \in BOOLEAN}
  /\ maxFileSizeOption = [given |-> FALSE, value |-> 0]
  /\ scanIndex = 1
  /\ scanFiles = <<>>
  /\ scanResult = NotScanned
  /\ reply = <<>>
  /\ outcome = NotCalled
  /\ selectedFiles \in CliFileOptions
  /\ oracleOnPath \in BOOLEAN
  /\ pc = "not called"
  /\ filePaths = <<>>
  /\ files = <<>>
  /\ prompt = <<>>
  /\ tmpFile = FALSE
  /\ child = "none"
  /\ output = <<>>
  /\ errorOutput = <<>>
  /\ exitCode = -1
  /\ promise = Pending
  /\ oracleCalls = 0
  /\ response = <<>>
  /\ result = NoResult
  /\ error = "none"
  /\ ReadIdle
  /\ SaveIdle
  /\ InteractiveIdle
  /\ OverlapIdle

\* cli.js, lines 28-47: a missing workspace prints 'Workspace not found'
\* and ends the process with status 1; otherwise analyze() is called.
CliStart ==
  /\ cliPc = "start"
  /\ IF workspace.exists
     THEN /\ cliPc' = "analyzing"
          /\ pc' = "start"
          /\ UNCHANGED <<exitStatus, error>>
     ELSE /\ cliPc' = "exited"
          /\ exitStatus' = 1
          /\ error' = "Workspace not found"
          /\ UNCHANGED pc
  /\ UNCHANGED <<xstateWritten, interactiveVars, overlapVars, saveVars, readVars, scanVars, oracleOnPath,
                 reply, outcome, selectedFiles, filePaths, files, prompt,
                 tmpFile, child, output, errorOutput, exitCode, promise,
                 oracleCalls, response, result>>

\* saveResults called while analyze() is still waiting for the oracle.
CliSave_Early ==
  /\ cliPc = "analyzing"
  /\ pc \in {"awaiting", "done"}
  /\ cliPc' = "saving"
  /\ savePc' = "mkdir"
  /\ saveInput' = result
  /\ outputDirExists' \in BOOLEAN
  /\ UNCHANGED <<interactiveVars, overlapVars, exitStatus, xstateWritten, saveVariant, saveWritten,
                 saveReturn, readVars, scanVars, reply, outcome, analyzeVars>>

\* cli.js, lines 47-51: analyze() has returned its results; saveResults is
\* entered with them.  Whether outputDir exists is the file system's state.
CliSave ==
  /\ cliPc = "analyzing"
  /\ pc = "done"
  /\ cliPc' = "saving"
  /\ savePc' = "mkdir"
  /\ saveInput' = result
  /\ outputDirExists' \in BOOLEAN
  /\ UNCHANGED <<interactiveVars, overlapVars, exitStatus, xstateWritten, saveVariant, saveWritten,
                 saveReturn, readVars, scanVars, reply, outcome, analyzeVars>>

\* cli.js, lines 53-80: saveResults has returned; with --to-xstate the
\* diagram is parsed and the machine written, either of which can throw;
\* then the handler ends and the process exits with status 0.
CliFinish ==
  /\ cliPc = "saving"
  /\ savePc = "returned"
  /\ \E toXstate \in BOOLEAN, fails \in BOOLEAN :
       IF toXstate /\ fails
       THEN /\ cliPc' = "failed"
            /\ UNCHANGED <<exitStatus, xstateWritten>>
       ELSE /\ cliPc' = "exited"
            /\ exitStatus' = 0
            /\ xstateWritten' = toXstate
  /\ UNCHANGED <<interactiveVars, overlapVars, saveVars, readVars, scanVars, reply, outcome, analyzeVars>>

\* A catch block that logs the error and lets the process end normally.
CliCatch_Swallow ==
  /\ \/ cliPc = "analyzing" /\ pc = "failed"
     \/ cliPc = "saving" /\ savePc = "thrown"
     \/ cliPc = "failed"
  /\ cliPc' = "exited"
  /\ exitStatus' = 0
  /\ UNCHANGED <<xstateWritten, interactiveVars, overlapVars, saveVars, readVars, scanVars, reply, outcome,
                 analyzeVars>>

\* cli.js, lines 82-88: whatever analyze(), saveResults() or the XState
\* conversion threw is printed and the process ends with status 1.
CliCatch ==
  /\ \/ cliPc = "analyzing" /\ pc = "failed"
     \/ cliPc = "saving" /\ savePc = "thrown"
     \/ cliPc = "failed"
  /\ cliPc' = "exited"
  /\ exitStatus' = 1
  /\ UNCHANGED <<xstateWritten, interactiveVars, overlapVars, saveVars, readVars, scanVars, reply, outcome,
                 analyzeVars>>

\* While the command's process lives, analyze() and saveResults() take
\* their steps inside it.
NextCli ==
  \/ CliStart
  \/ cliPc = "analyzing" /\ Next
  \/ CliSave
  \/ cliPc = "saving" /\ NextSave
  \/ CliFinish
  \/ CliCatch

SpecCli == InitCli /\ [][NextCli]_vars

----------------------------------------------------------------------------
(* A session of the interactive command, from the first prompt on: the     *)
(* files are read and the context message is the only message.             *)

InitInteractive ==
  /\ conversationHistory = <<contextMessage>>
  /\ oracleProcs = <<>>
  /\ rlState = "open"
  /\ reply = <<>>
  /\ outcome = NotCalled
  /\ selectedFiles = NoSelection
  /\ oracleOnPath = TRUE
  /\ AnalyzeIdle
  /\ ScanIdle
  /\ ReadIdle
  /\ SaveIdle
  /\ CliIdle
  /\ OverlapIdle

\* rl.on('line'), lines 134-173, up to the await: 'exit' and 'quit' close
\* the interface, whose 'close' handler ends the process; a blank line only
\* shows the prompt again; any other line is pushed as a user message, the
\* prompt is rendered from the whole history and the oracle is spawned with
\* it.  Nothing holds a line back while an earlier turn is waiting.
Line(line) ==
  /\ rlState = "open"
  /\ LET input == trim(line)
     IN  IF toLowerCase(input) \in {<<"exit">>, <<"quit">>}
         THEN /\ rlState' = "closed"
              /\ UNCHANGED <<conversationHistory, oracleProcs>>
         ELSE IF input = <<>>
         THEN UNCHANGED <<conversationHistory, oracleProcs, rlState>>
         ELSE /\ Len(oracleProcs) < MaxTurns
              /\ conversationHistory' =
                   Append(conversationHistory,
                          [role |-> "user", content |-> input])
              /\ oracleProcs' =
                   Append(oracleProcs,
                          [prompt |-> RenderPrompt(conversationHistory'),
                           status |-> "running"])
              /\ UNCHANGED rlState
  /\ UNCHANGED <<overlapVars, cliVars, saveVars, readVars, scanVars, reply,
                 outcome, analyzeVars>>

\* claude.on('close'), lines 168-171, and the rest of the turn, lines
\* 175-181: exit code 0 resolves with the output, which is pushed as the
\* assistant's message; another code rejects and the error is printed.
OracleClose(i, code) ==
  /\ rlState = "open"
  /\ i \in DOMAIN oracleProcs
  /\ oracleProcs[i].status = "running"
  /\ oracleProcs' = [oracleProcs EXCEPT ![i].status = "exited"]
  /\ conversationHistory' =
       IF code = 0
       THEN Append(conversationHistory,
                   [role |-> "assistant", content |-> AssistantMessage(i)])
       ELSE conversationHistory
  /\ UNCHANGED <<rlState, overlapVars, cliVars, saveVars, readVars, scanVars,
                 reply, outcome, analyzeVars>>

\* claude.on('error'), line 172: the oracle could not be started; the
\* rejection is printed at lines 177-179 and nothing is pushed.
OracleError(i) ==
  /\ rlState = "open"
  /\ i \in DOMAIN oracleProcs
  /\ oracleProcs[i].status = "running"
  /\ oracleProcs' = [oracleProcs EXCEPT ![i].status = "failed"]
  /\ UNCHANGED <<conversationHistory, rlState, overlapVars, cliVars,
                 saveVars, readVars, scanVars, reply, outcome, analyzeVars>>

NextInteractive ==
  \/ \E line \in Lines : Line(line)
  \/ \E i \in 1..MaxTurns, code \in ExitCodes : OracleClose(i, code)
  \/ \E i \in 1..MaxTurns : OracleError(i)

SpecInteractive == InitInteractive /\ [][NextInteractive]_vars

----------------------------------------------------------------------------
(* MaxInvocations calls of analyzeWithClaude whose lifetimes may overlap.  *)

InitOverlap ==
  /\ now = 0
  /\ tmpDir = [name \in 0..MaxClock |-> NoFile]
  /\ invocations = [i \in 1..MaxInvocations |->
                      [pc |-> "idle", tmpFile |-> -1, stdin |-> NoFile]]
  /\ reply = <<>>
  /\ outcome = NotCalled
  /\ selectedFiles = NoSelection
  /\ oracleOnPath = TRUE
  /\ AnalyzeIdle
  /\ ScanIdle
  /\ ReadIdle
  /\ SaveIdle
  /\ CliIdle
  /\ InteractiveIdle

\* A millisecond passes.
Tick ==
  /\ now < MaxClock
  /\ now' = now + 1
  /\ UNCHANGED <<tmpDir, invocations, interactiveVars, cliVars, saveVars,
                 readVars, scanVars, reply, outcome, analyzeVars>>

\* analyzeWithClaude, lines 128-159: the prompt is written to the file
\* named after the current time (an existing file of that name is
\* overwritten) and the shell command reading it is spawned.
Invoke(i) ==
  /\ invocations[i].pc = "idle"
  /\ tmpDir' = [tmpDir EXCEPT ![tmpFileName(now)] = PromptOf(i)]
  /\ invocations' = [invocations EXCEPT ![i].pc = "spawned",
                                        ![i].tmpFile = tmpFileName(now)]
  /\ UNCHANGED <<now, interactiveVars, cliVars, saveVars, readVars, scanVars,
                 reply, outcome, analyzeVars>>

\* The shell of call i performs `< tmpFile` (lines 141-143): the oracle's
\* standard input is whatever the file of that name holds at that moment;
\* with the file gone the redirection fails and the oracle reads nothing.
ShellOpens(i) ==
  /\ invocations[i].pc = "spawned"
  /\ invocations' = [invocations EXCEPT
                       ![i].pc = "running",
                       ![i].stdin = tmpDir[invocations[i].tmpFile]]
  /\ UNCHANGED <<now, tmpDir, interactiveVars, cliVars, saveVars, readVars,
                 scanVars, reply, outcome, analyzeVars>>

\* claude.on('close'), lines 161-174: the file of that name is unlinked
\* (a failure is ignored) and the promise settled.
InvocationClose(i) ==
  /\ invocations[i].pc = "running"
  /\ tmpDir' = [tmpDir EXCEPT ![invocations[i].tmpFile] = NoFile]
  /\ invocations' = [invocations EXCEPT ![i].pc = "settled"]
  /\ UNCHANGED <<now, interactiveVars, cliVars, saveVars, readVars, scanVars,
                 reply, outcome, analyzeVars>>

\* claude.on('error'), lines 176-184: the shell could not be started; the
\* file of that name is unlinked and the promise rejected.
InvocationError(i) ==
  /\ invocations[i].pc = "spawned"
  /\ tmpDir' = [tmpDir EXCEPT ![invocations[i].tmpFile] = NoFile]
  /\ invocations' = [invocations EXCEPT ![i].pc = "settled"]
  /\ UNCHANGED <<now, interactiveVars, cliVars, saveVars, readVars, scanVars,
                 reply, outcome, analyzeVars>>

NextOverlap ==
  \/ Tick
  \/ \E i \in 1..MaxInvocations :
       Invoke(i) \/ ShellOpens(i) \/ InvocationClose(i) \/ InvocationError(i)

SpecOverlap == InitOverlap /\ [][NextOverlap]_vars

----------------------------------------------------------------------------
(* analyze() on a workspace whose files are described, up to the moment    *)
(* the prompt is handed to the oracle: the scan is the one of             *)
(* scanWorkspace, or the explicit list is taken as given.                  *)

\* Regular files that fs.statSync can read.
RegularEntryStates == {e \in EntryStates : e = NoEntry \/ (~e.dir /\ e.stat)}

InitPrompt ==
  /\ workspace \in {[exists |-> TRUE, entries |-> es] :
                      es \in [Paths -> RegularEntryStates]}
  /\ maxFileSizeOption \in MaxFileSizeOptions
  /\ scanIndex = 1
  /\ scanFiles = <<>>
  /\ scanResult = NotScanned
  /\ selectedFiles \in
       {NoSelection} \cup {[given |-> TRUE, list |-> l] : l \in PathLists}
  /\ reply = <<>>
  /\ outcome = NotCalled
  /\ oracleOnPath = TRUE
  /\ AnalyzeIdle
  /\ ReadIdle
  /\ SaveIdle
  /\ CliIdle
  /\ InteractiveIdle
  /\ OverlapIdle

\* analyze, lines 226-230: scanWorkspace has settled; its list becomes
\* filePaths, an empty list throws and so does a failed scan.
AnalyzeScanned ==
  /\ pc = "start"
  /\ ~selectedFiles.given
  /\ scanResult.done
  /\ filePaths' = scanResult.list
  /\ IF ~scanResult.ok
     THEN pc' = "failed" /\ error' = scanResult.error
     ELSE IF scanResult.list = <<>>
     THEN pc' = "failed" /\ error' = "No files found to analyze"
     ELSE pc' = "found" /\ UNCHANGED error
  /\ UNCHANGED <<interactiveVars, overlapVars, cliVars, saveVars, readVars,
                 scanVars, oracleOnPath, reply, outcome, selectedFiles, files,
                 prompt, tmpFile, child, output, errorOutput, exitCode,
                 promise, oracleCalls, response, result>>

NextPrompt ==
  \/ AnalyzeSelected
  \/ ~selectedFiles.given /\ pc = "start" /\ NextScan
  \/ AnalyzeScanned
  \/ AnalyzeRead
  \/ AnalyzeWithClaude

SpecPrompt == InitPrompt /\ [][NextPrompt]_vars

----------------------------------------------------------------------------
(* Notions the properties are stated in.                                   *)

\* Position i of text r is the first position of a line.
LineStart(r, i) == i = 1 \/ r[i - 1] = "n"

\* Position i lies inside a line of prose: a visible character precedes
\* it on its line.
MidLine(r, i) ==
  \E j \in 1..(i - 1) : r[j] = "a" /\ \A q \in j..(i - 1) : r[q] # "n"

KeywordPositions(r) == {i \in 1..Len(r) : r[i] = "K"}

\* r contains a fenced block tagged mermaid: an opener and a later fence.
HasFencedBlock(r) ==
  \E i \in 1..Len(r), k \in 1..Len(r) :
    IsOpener(r, i) /\ k >= i + 3 /\ r[k] = "F"

\* The first fenced block of r: <<position of its opener, position of the
\* fence that closes it>>.
FirstFence(r) ==
  CHOOSE w \in (1..Len(r)) \X (1..Len(r)) :
    /\ IsOpener(r, w[1]) /\ w[2] >= w[1] + 3 /\ r[w[2]] = "F"
    /\ \A i \in 1..Len(r), k \in 1..Len(r) :
         (IsOpener(r, i) /\ k >= i + 3 /\ r[k] = "F")
           => (w[1] < i \/ (w[1] = i /\ w[2] <= k))

\* The text between the opener's line break and the closing fence.
FenceInterior(r) == SubSeq(r, FirstFence(r)[1] + 3, FirstFence(r)[2] - 1)

\* A double line break or a line break followed by a fence starts at e.
TerminatorAt(b, e) ==
  e + 1 <= Len(b) /\ b[e] = "n" /\ b[e + 1] \in {"n", "F"}

\* t is taken from r starting at position p: it is a (trimmed) run of r
\* that begins at p.
TakenFrom(r, p, t) ==
  \E e \in p..Len(r) : t = trim(SubSeq(r, p, e))

----------------------------------------------------------------------------
(* C1.  analyze() never invokes the oracle with an empty set of file       *)
(* records, and every result it returns lists at least one analyzed file.  *)
C1_NoEmptyFileSet ==
  /\ oracleCalls > 0 => files # <<>>
  /\ result.present => result.filesAnalyzed # <<>>

C3_NeverEmptyDiagram ==
  (outcome.called /\ outcome.ok) => outcome.text # <<>>

(* C4.  When the keyword first occurs in the middle of a line and later    *)
(* at the start of a line, the returned diagram begins at the line-start   *)
(* occurrence.                                                             *)
C4_LineStartOnly ==
  LET ks == KeywordPositions(reply)
      atStart == {i \in ks : LineStart(reply, i)}
  IN  (/\ outcome.called
       /\ ks # {}
       /\ MidLine(reply, Min(ks))
       /\ atStart # {})
      => /\ outcome.ok
         /\ TakenFrom(reply, Min(atStart), outcome.text)

(* C5.  When the keyword occurs only inside prose (every occurrence has    *)
(* prose before it on its line, and there is no fenced mermaid block),     *)
(* the whole reply is returned verbatim.                                   *)
C5_WholeReply ==
  (/\ outcome.called
   /\ KeywordPositions(reply) # {}
   /\ \A i \in KeywordPositions(reply) : MidLine(reply, i)
   /\ ~HasFencedBlock(reply))
  => (outcome.ok /\ outcome.text = reply)

(* C6, as claimed.  When the only diagram structure of the reply is a      *)
(* fenced mermaid block (the keyword, if present, lies inside it), the     *)
(* trimmed interior of the block is returned.                              *)
C6_FenceInterior ==
  (/\ outcome.called
   /\ HasFencedBlock(reply)
   /\ \A i \in KeywordPositions(reply) :
        FirstFence(reply)[1] + 2 < i /\ i < FirstFence(reply)[2])
  => (outcome.ok /\ outcome.text = trim(FenceInterior(reply)))

(* C6, amended.  When the reply has a fenced mermaid block and does not    *)
(* contain the keyword at all, the trimmed interior of the first fenced    *)
(* block is returned, blank lines included.                                *)
C6_FenceInteriorNoKeyword ==
  (/\ outcome.called
   /\ HasFencedBlock(reply)
   /\ KeywordPositions(reply) = {})
  => (outcome.ok /\ outcome.text = trim(FenceInterior(reply)))

\* A fenced block without the keyword whose interior holds a blank line
\* was returned whole.
C6_Witness ==
  /\ outcome.called
  /\ reply = <<"F", "M", "n", "a", "n", "n", "a", "F">>
  /\ outcome.ok
  /\ outcome.text = <<"a", "n", "n", "a">>

(* C7.  Strategy 1 takes precedence: a reply that contains the keyword is  *)
(* answered with the block that starts at the first keyword, also when a   *)
(* fenced mermaid block is present; the fenced block's interior is         *)
(* returned only when the reply holds no keyword.                          *)
C7_StrategyOrder ==
  outcome.called =>
    /\ KeywordPositions(reply) # {}
         => /\ outcome.ok
            /\ outcome.text # <<>>
            /\ Head(outcome.text) = "K"
            /\ TakenFrom(reply, Min(KeywordPositions(reply)), outcome.text)
    /\ (KeywordPositions(reply) = {} /\ outcome.ok)
         => HasFencedBlock(reply)

\* A reply with a fenced block that holds no keyword, followed by a block
\* that starts with the keyword at the start of a line: the keyword block
\* was returned.
C7_Witness ==
  /\ outcome.called
  /\ reply = <<"F", "M", "n", "a", "n", "F", "n", "K">>
  /\ outcome.ok
  /\ outcome.text = <<"K">>

(* C8.  When the oracle's reply contains neither the keyword nor a fenced  *)
(* mermaid block, analyze() fails with the extractor's error and returns   *)
(* no result.                                                              *)
C8_DiagramNotFound ==
  (/\ pc \in {"done", "failed"}
   /\ promise.state = "resolved"
   /\ KeywordPositions(promise.value) = {}
   /\ ~HasFencedBlock(promise.value))
  => /\ pc = "failed"
     /\ error = "Could not extract Mermaid diagram from response"
     /\ result = NoResult

\* analyze() failed on a prose-only reply.
C8_Witness ==
  /\ pc = "failed"
  /\ promise.state = "resolved"
  /\ promise.value = <<"a", "n", "a">>
  /\ error = "Could not extract Mermaid diagram from response"
  /\ ~result.present

(* C9.  For a reply made of prose without the keyword, a blank line, and a *)
(* block that starts with the keyword and runs to the end of the text,     *)
(* the returned diagram is the block up to its first double line break,    *)
(* its first line break followed by a fence, or its end, trimmed.          *)
C9_TrailingBlock ==
  outcome.called =>
    \A p \in 1..(Len(reply) - 2) :
      (/\ reply[p] = "n" /\ reply[p + 1] = "n" /\ reply[p + 2] = "K"
       /\ \A q \in 1..(p - 1) : reply[q] # "K")
      => LET block == SubSeq(reply, p + 2, Len(reply))
             ends == {e \in 2..(Len(block) + 1) :
                        e = Len(block) + 1 \/ TerminatorAt(block, e)}
         IN  /\ outcome.ok
             /\ outcome.text = trim(SubSeq(block, 1, Min(ends) - 1))

\* Prose, a blank line, and a keyword block with a trailing line break:
\* the block was returned without the prose and without the line break.
C9_Witness ==
  /\ outcome.called
  /\ reply = <<"a", "n", "n", "K", "a", "n">>
  /\ outcome.ok
  /\ outcome.text = <<"K", "a">>

(* C10.  A started oracle process is classified by its exit code alone:    *)
(* code 0 resolves with the trimmed standard output, empty or not; any     *)
(* other code rejects with the exit-code error carrying the code and the   *)
(* captured standard error.                                                *)
C10_ExitCodeOnly ==
  child = "exited" =>
    /\ exitCode = 0 => promise = Resolved(trim(output))
    /\ exitCode # 0 =>
         /\ promise.state = "rejected"
         /\ promise.reason = "Claude CLI exited with code"
         /\ promise.code = exitCode
         /\ promise.detail = errorOutput

\* The process exited with code 0 having written only a line break: the
\* promise resolved with the empty text.
C10_Witness ==
  /\ child = "exited"
  /\ exitCode = 0
  /\ output = <<"n">>
  /\ promise.state = "resolved"
  /\ promise.value = <<>>

(* C11.  When the oracle process could not be started (the executable is   *)
(* missing or not on the search path), analyzeWithClaude fails with the    *)
(* 'Failed to start Claude CLI' error and not with the exit-code error.    *)
C11_OracleUnavailable ==
  (~oracleOnPath /\ promise.state # "pending") => promise = RejectedStart


----------------------------------------------------------------------------
(* Properties of scanWorkspace.                                            *)

\* The names whose absolute paths occur in a list of paths.
NamesIn(l) == {l[i][Len(l[i])] : i \in DOMAIN l}

\* The ceiling the caller configured: the option when given, the
\* documented default otherwise.
ConfiguredCeiling ==
  IF maxFileSizeOption.given
  THEN maxFileSizeOption.value
  ELSE DefaultMaxFileSize

(* C12.  Exclusion takes precedence over inclusion: a file that matches an *)
(* exclude pattern is never in the list scanWorkspace returns, even when   *)
(* it matches an include pattern.                                          *)
C12_ExcludeWins ==
  (scanResult.done /\ scanResult.ok) =>
    \A f \in NamesIn(scanResult.list) : ~workspace.entries[f].exc

\* A scan returned f2 while f1, matching an include and an exclude
\* pattern, was left out.
C12_Witness ==
  /\ scanResult.done /\ scanResult.ok
  /\ workspace.entries["f1"].inc # {}
  /\ workspace.entries["f1"].exc
  /\ NamesIn(scanResult.list) = {"f2"}

(* C13.  scanWorkspace returns no file larger than the configured size     *)
(* ceiling, and returns the matching files whose size is at most the       *)
(* ceiling (a file exactly at the ceiling is returned).                    *)
C13_SizeCeiling ==
  (scanResult.done /\ scanResult.ok) =>
    \A f \in Paths :
      LET e == workspace.entries[f]
      IN  /\ f \in NamesIn(scanResult.list) => e.size <= ConfiguredCeiling
          /\ (e.inc # {} /\ ~e.exc /\ e.size = ConfiguredCeiling)
               => f \in NamesIn(scanResult.list)

(* C14.  The list scanWorkspace returns holds no path twice, even when a   *)
(* file matches several include patterns.                                  *)
C14_NoDuplicates ==
  (scanResult.done /\ scanResult.ok) =>
    \A i, j \in DOMAIN scanResult.list :
      scanResult.list[i] = scanResult.list[j] => i = j

(* C15.  The list scanWorkspace returns holds regular files only, never a  *)
(* directory.                                                              *)
C15_NoDirectories ==
  (scanResult.done /\ scanResult.ok) =>
    \A f \in NamesIn(scanResult.list) : ~workspace.entries[f].dir

(* C16.  A candidate whose status cannot be read is left out of the result *)
(* and the scan completes: scanWorkspace does not fail because of it.      *)
C16_StatFailureSkipped ==
  scanResult.done =>
    /\ scanResult.ok
    /\ \A f \in NamesIn(scanResult.list) : workspace.entries[f].stat

(* C17.  When the workspace root does not exist, scanWorkspace fails with  *)
(* a workspace-not-found error instead of returning a list.                *)
C17_WorkspaceNotFound ==
  (scanResult.done /\ ~workspace.exists) =>
    (~scanResult.ok /\ scanResult.error = "Workspace not found")


----------------------------------------------------------------------------
(* Properties of readFiles and of the order of files.                      *)

\* Positions of readPaths whose read throws.
Unreadable == {i \in 1..Len(readPaths) : readPaths[i] \notin readableFiles}

\* How many of the first i requested paths could be read.
Rank(i) == Cardinality((1..i) \ Unreadable)

(* C18.  readFiles is total under partial failure: of N requested paths    *)
(* with K unreadable it returns N - K records, one per readable path in    *)
(* the order of the request, each holding that file's content and its path *)
(* relative to the workspace root (resolving it against the root gives the *)
(* requested path back), and one warning per unreadable path.              *)
C18_ReadFilesTotal ==
  readResult.done =>
    /\ Len(readResult.list) = Len(readPaths) - Cardinality(Unreadable)
    /\ readResult.warnings = Cardinality(Unreadable)
    /\ \A i \in (1..Len(readPaths)) \ Unreadable :
         LET record == readResult.list[Rank(i)]
         IN  /\ Head(record.path) # "/"
             /\ resolve(workspacePath, record.path) = readPaths[i]
             /\ record.content = readFileSync(readPaths[i])

\* Three paths were requested, the second (outside the workspace) could
\* not be read, and the records of the first and the third came back.
C18_Witness ==
  /\ readResult.done
  /\ readPaths = <<<<"/", "ws", "f2">>, <<"/", "etc", "f1">>,
                   <<"/", "ws", "sub", "f1">>>>
  /\ readableFiles = {<<"/", "ws", "f2">>, <<"/", "ws", "sub", "f1">>}
  /\ Len(readResult.list) = 2
  /\ readResult.list[2].path = <<"sub", "f1">>


\* a can be obtained from b by leaving elements out.
RECURSIVE IsSubsequence(_, _)
IsSubsequence(a, b) ==
  IF a = <<>> THEN TRUE
  ELSE IF b = <<>> THEN FALSE
  ELSE IF Head(a) = Head(b)
       THEN IsSubsequence(Tail(a), Tail(b))
       ELSE IsSubsequence(a, Tail(b))

\* The paths of the "File:" sections of a prompt, in order.
PromptOrder(p) == [i \in 1..Len(p) |-> p[i][2]]

\* The paths an analysis.txt lists, in order.
ReportOrder(text) == SubSeq(text, 2, Len(text) - 2)

(* C19.  File order is preserved end to end in analyze(): the files read   *)
(* are the requested ones (the explicit list or the scan result) in their  *)
(* order with the unreadable ones left out, the prompt lists them in that  *)
(* order, and so do filesAnalyzed and the report written from the result.  *)
C19_OrderPreserved ==
  /\ pc \notin {"start", "found", "failed"} =>
       IsSubsequence(Absolute([i \in 1..Len(files) |-> files[i].path[1]]),
                     filePaths)
  /\ selectedFiles.given /\ pc # "start" =>
       filePaths = Absolute(selectedFiles.list)
  /\ oracleCalls > 0 => PromptOrder(prompt) = filesAnalyzed(files)
  /\ result.present =>
       /\ result.filesAnalyzed = PromptOrder(prompt)
       /\ ReportOrder(fullAnalysis(result)) = PromptOrder(prompt)

\* analyze() returned after reading f2 and then f1, as the caller listed
\* them.
C19_Witness ==
  /\ result.present
  /\ selectedFiles = [given |-> TRUE, list |-> <<"f2", "f1">>]
  /\ result.filesAnalyzed = << <<"f2">>, <<"f1">> >>


----------------------------------------------------------------------------
(* Properties of saveResults.                                              *)

\* The artifacts in the order they are to be written.
Artifacts == <<"state-machine.mmd", "analysis.txt", "view-diagram.html">>

\* The names of the files written so far, in order.
WrittenNames == [i \in 1..Len(saveWritten) |-> saveWritten[i].file]

(* C20.  saveResults writes the diagram, the report and the viewer in that *)
(* order, only once the output directory exists; a failed write ends the   *)
(* call with the later artifacts unwritten and nothing returned; a call    *)
(* that returns has written all three and returns the three paths.         *)
C20_SaveOrder ==
  /\ Len(saveWritten) <= Len(Artifacts)
  /\ WrittenNames = SubSeq(Artifacts, 1, Len(saveWritten))
  /\ saveWritten # <<>> => outputDirExists
  /\ savePc = "thrown" => (Len(saveWritten) < Len(Artifacts) /\ saveReturn = {})
  /\ savePc = "returned" =>
       /\ WrittenNames = Artifacts
       /\ saveReturn = {Artifacts[i] : i \in DOMAIN Artifacts}


----------------------------------------------------------------------------
(* Properties of the analyze command.                                      *)

(* C21.  In a run of the analyze command the stages follow one another:    *)
(* nothing is read before the file list is settled, the prompt is built    *)
(* from the records read, the oracle is started with that prompt, the      *)
(* diagram is extracted from the reply of the exited oracle, and no        *)
(* artifact is written before the oracle has exited and the diagram has    *)
(* been extracted from its reply.                                          *)
C21_StageOrder ==
  /\ pc \in {"not called", "start"} => filePaths = <<>>
  /\ pc \in {"not called", "start", "found"} => files = <<>>
  /\ pc \in {"not called", "start", "found", "read"} =>
       (prompt = <<>> /\ oracleCalls = 0 /\ child = "none")
  /\ oracleCalls > 0 => prompt = createAnalysisPrompt(files)
  /\ promise.state = "pending" => (response = <<>> /\ ~result.present)
  /\ result.present =>
       /\ child = "exited"
       /\ promise.state = "resolved"
       /\ result.analysis = promise.value
  /\ (result.present /\ cliPc = "analyzing") =>
       LET mermaidDiagram == extractMermaidDiagram(promise.value)
       IN  mermaidDiagram.ok /\ result.mermaidDiagram = mermaidDiagram.text
  /\ (savePc # "idle" \/ saveWritten # <<>>) =>
       (pc = "done" /\ result.present /\ saveInput = result)
  /\ xstateWritten => (savePc = "returned" /\ WrittenNames = Artifacts)

\* A run that went through every stage: the three artifacts and the
\* XState file are written and the process ended with status 0.
C21_Witness ==
  /\ cliPc = "exited"
  /\ exitStatus = 0
  /\ xstateWritten
  /\ WrittenNames = Artifacts
  /\ Len(result.filesAnalyzed) = 2

\* The run met a fatal failure: the workspace is missing, analyze() threw,
\* or a write of saveResults threw.
Fatal == ~workspace.exists \/ pc = "failed" \/ savePc = "thrown"

(* C22.  The analyze command never retries and never swallows a fatal      *)
(* error: the oracle is spawned at most once, a fatal failure is followed  *)
(* by no later stage and leaves the catch block as the step to take, and   *)
(* the process ends with status 1 after it; status 0 means that every      *)
(* stage succeeded.                                                        *)
C22_NoRetryNoSwallow ==
  /\ oracleCalls <= 1
  /\ ~workspace.exists => (pc = "not called" /\ filePaths = <<>>)
  /\ error = "No files found to analyze" => (files = <<>> /\ oracleCalls = 0)
  /\ promise.state = "rejected" => (response = <<>> /\ ~result.present)
  /\ pc = "failed" => (~result.present /\ savePc = "idle")
  /\ savePc = "thrown" =>
       (saveReturn = {} /\ ~xstateWritten /\ WrittenNames # Artifacts)
  /\ (Fatal /\ cliPc \notin {"start", "exited"}) => ENABLED CliCatch
  /\ (Fatal /\ cliPc = "exited") => exitStatus = 1
  /\ exitStatus = 0 =>
       (cliPc = "exited" /\ pc = "done" /\ savePc = "returned")

\* The oracle answered without a diagram: analyze() threw after one oracle
\* run, nothing was written and the process ended with status 1.
C22_Witness ==
  /\ cliPc = "exited"
  /\ exitStatus = 1
  /\ oracleCalls = 1
  /\ error = "Could not extract Mermaid diagram from response"
  /\ saveWritten = <<>>


----------------------------------------------------------------------------
(* Properties of the interactive command.                                  *)

\* The turns whose oracle process is running.
InFlight == {i \in DOMAIN oracleProcs : oracleProcs[i].status = "running"}

\* The position in the history of the user's message of turn i (the
\* context message is not a turn).
QuestionAt(i) ==
  CHOOSE k \in 2..Len(conversationHistory) :
    /\ conversationHistory[k].role = "user"
    /\ Cardinality({j \in 2..k : conversationHistory[j].role = "user"}) = i

(* C23.  In interactive mode at most one oracle process is in flight at    *)
(* any time, and the prompt of every turn is the transcript up to and      *)
(* including that turn's input.                                            *)
C23_OneOracleAtATime ==
  /\ Cardinality(InFlight) <= 1
  /\ \A i \in DOMAIN oracleProcs :
       oracleProcs[i].prompt =
         RenderPrompt(SubSeq(conversationHistory, 1, QuestionAt(i)))


----------------------------------------------------------------------------
(* Properties of overlapping calls of analyzeWithClaude.                   *)

\* The call has written its file and its promise is not settled.
Live(i) == invocations[i].pc \in {"spawned", "running"}

(* C24.  For overlapping calls of analyzeWithClaude no two live calls      *)
(* share a prompt file, the file of a call holds that call's prompt until  *)
(* its oracle has opened it, and every oracle reads the prompt of its own  *)
(* call.                                                                   *)
C24_OwnPromptFile ==
  \A i \in 1..MaxInvocations :
    /\ \A j \in 1..MaxInvocations :
         (i # j /\ Live(i) /\ Live(j))
           => invocations[i].tmpFile # invocations[j].tmpFile
    /\ invocations[i].pc = "spawned" =>
         tmpDir[invocations[i].tmpFile] = PromptOf(i)
    /\ invocations[i].pc = "running" => invocations[i].stdin = PromptOf(i)


----------------------------------------------------------------------------
(* Properties of the files in the prompt.                                  *)

(* C25.  No file larger than the size ceiling and no file matching an      *)
(* exclude pattern is in the prompt analyze() sends to the oracle, whether *)
(* the files come from the scan or from an explicit list.                  *)
C25_PromptFilesFiltered ==
  oracleCalls > 0 =>
    \A f \in NamesIn(PromptOrder(prompt)) :
      /\ ~workspace.entries[f].exc
      /\ workspace.entries[f].size <= ConfiguredCeiling

====
